---- MODULE Spec2Model ----
(***************************************************************************)
(* Session controller of the interactive feedback panel                   *)
(* (src/feedback_ui.py): the command runner, the process tree terminator, *)
(* the file selection and rule toggles, and the feedback compositor.      *)
(*                                                                         *)
(* Strings are sequences of atoms.  In a composed document an atom is a    *)
(* TLA+ string (a literal of the source or one character of user text);    *)
(* in a log line an atom is a record naming what produced it.              *)
(***************************************************************************)
EXTENDS Integers, Sequences, FiniteSets, TLC

\* ------------------------------------------------------------------ bounds
MaxFiles == 2      \* longest modified_files list drawn in InitCompose
MaxRuns  == 1      \* successful launches per session
MaxLines == 1      \* lines one process writes, over both output channels
MaxSaves == 1      \* presses of "Save Configuration" per session
MaxKids  == 2      \* descendants enumerated by one kill_tree call
MaxWrites == 3     \* lines one process writes, where writing and reading are separate steps
MaxRestarts == 2   \* successful launches per session, where restarts are followed

\* ---------------------------------------------------------- string helpers
RECURSIVE Flatten(_)
\* "".join(parts)
Flatten(parts) ==
    IF parts = <<>> THEN <<>> ELSE Head(parts) \o Flatten(Tail(parts))

RECURSIVE Join(_, _)
\* sep.join(parts)
Join(parts, sep) ==
    IF parts = <<>> THEN <<>>
    ELSE IF Len(parts) = 1 THEN Head(parts)
    ELSE Head(parts) \o sep \o Join(Tail(parts), sep)

IsSpace(c) == c \in {" ", "\n", "\t"}

RECURSIVE LStrip(_)
LStrip(s) ==
    IF s # <<>> /\ IsSpace(Head(s)) THEN LStrip(Tail(s)) ELSE s

RECURSIVE RStrip(_)
RStrip(s) ==
    IF s # <<>> /\ IsSpace(s[Len(s)]) THEN RStrip(SubSeq(s, 1, Len(s) - 1)) ELSE s

StripLeadingOnly(s) == LStrip(s)

\* str.strip(): whitespace removed at both ends
Strip(s) == RStrip(LStrip(s))

\* str.lower() on one character of the path alphabet
LowerChar(c) ==
    CASE c = "C" -> "c"
      [] c = "M" -> "m"
      [] c = "D" -> "d"
      [] OTHER   -> c

Lower(s) == [i \in 1..Len(s) |-> LowerChar(s[i])]

\* str.endswith(suf)
EndsWith(s, suf) ==
    /\ Len(s) >= Len(suf)
    /\ SubSeq(s, Len(s) - Len(suf) + 1, Len(s)) = suf

\* code point of a character of the path alphabet
CharCode(c) ==
    CASE c = "." -> 46
      [] c = "C" -> 67
      [] c = "D" -> 68
      [] c = "M" -> 77
      [] c = "a" -> 97
      [] c = "b" -> 98
      [] c = "d" -> 100
      [] c = "m" -> 109
      [] c = "p" -> 112
      [] c = "y" -> 121
      [] OTHER   -> 0

RECURSIVE StrLess(_, _)
\* s < t for Python str: lexicographic by code point
StrLess(s, t) ==
    IF t = <<>> THEN FALSE
    ELSE IF s = <<>> THEN TRUE
    ELSE IF CharCode(Head(s)) # CharCode(Head(t))
         THEN CharCode(Head(s)) < CharCode(Head(t))
    ELSE StrLess(Tail(s), Tail(t))

RECURSIVE Sorted(_)
\* sorted(S) for a set of paths
Sorted(S) ==
    IF S = {} THEN <<>>
    ELSE LET m == CHOOSE x \in S : \A y \in S \ {x} : StrLess(x, y)
         IN  <<m>> \o Sorted(S \ {m})

Range(s) == {s[i] : i \in 1..Len(s)}

\* every ordering of a finite set, as sequences without repetition
Orderings(S) ==
    {s \in [1..Cardinality(S) -> S] : Range(s) = S}

\* ------------------------------------------------------ static rule data
RuleKeysReversed == <<"no_new_md", "single_operation">>

\* rules_config, in declaration order
RuleKeys == <<"single_operation", "no_new_md">>

RuleSet == Range(RuleKeys)

RuleText(k) ==
    IF k = "single_operation"
    THEN "ALWAYS BATCH EDIT: GROUP all EDITS on the SAME FILE into ONE OPERATION"
    ELSE "AFTER EVERY ACTION OR RESPONSE, THE AGENT MUST CALL MCP interactive_feedback"

RulesHeader == "## Additional Rules to Apply:"
FilesHeader == "## Files Modified by User:"
UserHeader  == "## User Feedback:"
\* the code-fence line (three backquotes) that opens and closes a file body
Fence == "[fence]"

\* ------------------------------------------------------------ compositor
\* Optional[str]
NoneText == [present |-> FALSE, text |-> <<>>]
SomeText(t) == [present |-> TRUE, text |-> t]

\* Python truthiness of an Optional[str]
Truthy(o) == o.present /\ o.text # <<>>

\* what reading one selected file yields: os.path.exists is false, open/read
\* raises, or the content is read
FileOutcomes ==
    { [kind |-> "ok",       content |-> <<"hello">>],
      [kind |-> "notfound", content |-> <<>>],
      [kind |-> "error",    content |-> <<"Permission denied">>] }

FilePartsSkipsUnreadable(path, o) ==
    IF o.kind = "ok"
    THEN << <<"### ">> \o path, <<Fence>>, o.content, <<Fence>>, <<>> >>
    ELSE << >>

\* the content_parts appended for one path
FileParts(path, o) ==
    CASE o.kind = "ok" ->
           << <<"### ">> \o path, <<Fence>>, o.content, <<Fence>>, <<>> >>
      [] o.kind = "notfound" ->
           << <<"### ">> \o path \o <<" (file not found)">>, <<>> >>
      [] OTHER ->
           << <<"### ">> \o path \o <<" (error reading: ">> \o o.content \o <<")">>,
              <<>> >>

RECURSIVE AllFileParts(_, _)
AllFileParts(paths, fs) ==
    IF paths = <<>> THEN <<>>
    ELSE FileParts(Head(paths), fs[Head(paths)]) \o AllFileParts(Tail(paths), fs)

\* _get_selected_files_content: None for an empty selection, else the block
GetSelectedFilesContent(sel, fs) ==
    IF sel = {} THEN NoneText
    ELSE SomeText(Join(<< <<FilesHeader>>, <<>> >> \o AllFileParts(Sorted(sel), fs),
                       <<"\n">>))

RECURSIVE RulesFrom(_, _)
RulesFrom(keys, isChecked) ==
    IF keys = <<>> THEN <<>>
    ELSE (IF isChecked[Head(keys)] THEN << <<"- ", RuleText(Head(keys))>> >> ELSE <<>>)
         \o RulesFrom(Tail(keys), isChecked)

\* _get_selected_rules: one "- text" entry per checked rule, in dict order
GetSelectedRules(isChecked) == RulesFrom(RuleKeys, isChecked)

RulesSection(selected_rules) ==
    <<RulesHeader, "\n">> \o Join(selected_rules, <<"\n">>)

\* combined_feedback after the rules step of _submit_feedback
WithRules(user_feedback, selected_rules) ==
    IF selected_rules # <<>>
    THEN IF user_feedback # <<>>
         THEN RulesSection(selected_rules) \o <<"\n", "\n">> \o user_feedback
         ELSE RulesSection(selected_rules)
    ELSE user_feedback

WithFilesAppended(combined, files_content) ==
    IF Truthy(files_content)
    THEN IF combined # <<>>
         THEN combined \o <<"\n", "\n">> \o files_content.text
         ELSE files_content.text
    ELSE combined

WithFilesAlwaysHeading(combined, files_content) ==
    IF Truthy(files_content)
    THEN files_content.text \o <<"\n", "\n", UserHeader, "\n">> \o combined
    ELSE combined

\* combined_feedback after the files step of _submit_feedback
WithFiles(combined, files_content) ==
    IF Truthy(files_content)
    THEN IF combined # <<>>
         THEN files_content.text \o <<"\n", "\n", UserHeader, "\n">> \o combined
         ELSE files_content.text
    ELSE combined

\* interactive_feedback as _submit_feedback builds it
Compose(raw_text, isChecked, files_content) ==
    WithFiles(WithRules(Strip(raw_text), GetSelectedRules(isChecked)), files_content)

\* ------------------------------------------------- environment resolver
\* get_user_environment: the inherited environment off win32; on win32 the
\* block rebuilt from the process token, or RuntimeError when a call fails
GetUserEnvironment(plat, apiOk) ==
    IF plat # "win32" THEN "env"
    ELSE IF apiOk THEN "env" ELSE "RuntimeError"

\* ------------------------------------------------ process tree terminator
\* what psutil reports for a pid when it is signalled
ProcStates == {"running", "zombie", "gone", "denied"}

\* proc.kill() / proc.terminate() raise psutil.Error for these
SignalFails(st) == st \in {"gone", "denied"}

RECURSIVE KillKids(_, _)
\* lines 97-102: kill each enumerated descendant, failures swallowed
KillKids(kids, i) ==
    IF i > Len(kids) THEN <<>>
    ELSE << [target |-> i, sig |-> "kill", ok |-> ~SignalFails(kids[i])] >>
         \o KillKids(kids, i + 1)

RECURSIVE TerminateLeft(_, _)
\* lines 110-115: terminate every entry of killed that is_running() reports
TerminateLeft(killed, still) ==
    IF killed = <<>> THEN <<>>
    ELSE (IF Head(killed) \in still
          THEN << [target |-> Head(killed), sig |-> "terminate", ok |-> TRUE] >>
          ELSE <<>>)
         \o TerminateLeft(Tail(killed), still)

\* psutil.Process(pid) raises NoSuchProcess when the pid is not found
RootLookupRaises(root) == root = "gone"

\* kill_tree(process): root is target 0, descendant i is target i.
\* `still` are the targets is_running() reports in the second phase.
KillTree(root, kids, still) ==
    IF RootLookupRaises(root)
    THEN [raised |-> TRUE, signals |-> <<>>]
    ELSE LET phase1 == KillKids(kids, 1)
             killed == [j \in 1..Len(SelectSeq(phase1, LAMBDA x : x.ok)) |->
                            SelectSeq(phase1, LAMBDA x : x.ok)[j].target] \o <<0>>
             rootSig == << [target |-> 0, sig |-> "kill", ok |-> ~SignalFails(root)] >>
         IN  [raised  |-> FALSE,
              signals |-> phase1 \o rootSig \o TerminateLeft(killed, still)]

\* ------------------------------------------------------------ log lines
Channels == {"stdout", "stderr"}

Atom(kind, run, ch, n) == [k |-> kind, run |-> run, ch |-> ch, n |-> n]
NL == Atom("nl", 0, "", 0)

\* "Please enter a command to run\n"
EmptyCommandLine == << Atom("please_enter_command", 0, "", 0), NL >>
\* f"$ {command}\n"
CommandEchoLine(run) == << Atom("dollar", 0, "", 0), Atom("command", run, "", 0), NL >>
\* f"Error running command: {str(e)}\n"
ErrorLine(run) == << Atom("error_running_command", run, "", 0), NL >>
\* f"\nProcess exited with code {exit_code}\n"
ExitLine(run) == << NL, Atom("process_exited_with_code", run, "", 0), NL >>
\* "Configuration saved for this project.\n"
SavedLine == << Atom("configuration_saved", 0, "", 0), NL >>
\* the n-th line read from a pipe of run `run`, with its newline
OutputLine(run, ch, n) == << Atom("output", run, ch, n), NL >>

\* ----------------------------------------------------------------- state
VARIABLES
    platform,          \* sys.platform: "win32" or "posix"
    pyside_enums,      \* what Qt.Checked is in the installed PySide6: "int_enum"
                       \* or "python_enum"
    modified_files,    \* FeedbackUI.modified_files (a list)
    checked,           \* FileListWidget.file_items: path -> checkbox state
    selected_files,    \* FeedbackUI.selected_files (a set)
    display,           \* FileListWidget.layout: the file items from top to bottom
    rule_checked,      \* rules_checkboxes[key].isChecked()
    rule_initial,      \* rules_checkboxes[key]._initial_state
    settings_rule,     \* QSettings value "rule_<key>" of the project: "unset", "true", "false"
    feedback_text,     \* feedback_text.toPlainText()
    command_entry,     \* command_entry.text()
    process,           \* FeedbackUI.process: 0 is None, else the handle of the n-th launch
    procState,         \* what the OS reports for the held handle's root process
    run_button,        \* run_button text: "Run" or "Stop"
    log_buffer,        \* FeedbackUI.log_buffer (a list of lines)
    sigQueue,          \* append_log signals emitted by reader threads, not yet delivered
    pipes,             \* per launch and channel: lines the child has written, lines
                       \* the reader thread has read, reader thread finished
    timerActive,       \* status_timer has been started
    runs,              \* launches so far
    saves,             \* "Save Configuration" presses so far
    phase,             \* "new" (before __init__), "open", "closing" (closeEvent
                       \* done), "returned", "crashed"
    feedback_result,   \* FeedbackUI.feedback_result: <<>> is None, else <<record>>
    returned,          \* what run() returned: <<>> before it returns, else <<record>>
    killed,            \* handles kill_tree has been invoked on
    heldAtClose,       \* the handle held when closeEvent ran
    kt,                \* a kill_tree call on its own: inputs and result
    launch             \* launch_feedback_ui of server.py: the temporary file, the exit
                       \* code of the UI process, and what the caller gets

vars == << platform, pyside_enums, modified_files, checked, selected_files, display,
           rule_checked, rule_initial, settings_rule, feedback_text, command_entry,
           process, procState, run_button, log_buffer, sigQueue, pipes, timerActive, runs,
           saves, phase, feedback_result, returned, killed, heldAtClose, kt, launch >>

fileVars   == << modified_files, checked, selected_files, display >>
ruleVars   == << rule_checked, rule_initial, settings_rule >>
runnerVars == << process, procState, run_button, log_buffer, sigQueue, pipes,
                 timerActive, runs, killed >>
endVars    == << phase, feedback_result, returned, heldAtClose >>

None == 0

\* ------------------------------------------------------------ input sets
Paths == { <<"a", ".", "m", "d">>, <<"b", ".", "p", "y">>, <<"C", ".", "M", "D">> }

SeqsUpTo(S, n) == UNION { [1..k -> S] : k \in 0..n }

\* what the user may type into the feedback box
Texts == { <<>>, <<" ">>, <<"o", "k">>, <<" ", "o", "k", "\n">>, <<"o", " ", "k">> }

Commands == {"", "cmd"}

\* ---------------------------------------------------------- construction
\* ClickableFileItem.__init__ / _create_file_changes_section: the default
\* choice for one path
DefaultSelectedUpper(path) == EndsWith(path, <<".", "m", "d">>)

DefaultSelected(path) == EndsWith(Lower(path), <<".", "m", "d">>)

\* settings.value(f"rule_{key}", True, type=bool)
SavedState(stored) == stored # "false"

\* settings.setValue(f"rule_{key}", checked)
StoredValue(b) == IF b THEN "true" ELSE "false"

KtIdle == [stage |-> "idle", root |-> "running", kids |-> <<>>, still |-> {},
           result |-> [raised |-> FALSE, signals |-> <<>>]]

\* ClickableFileItem.__init__: is_checked of each item added to the list
InitialChecked(files) == [p \in Range(files) |-> DefaultSelected(p)]

\* _create_file_changes_section: the paths added to selected_files
InitialSelected(files) == {p \in Range(files) : DefaultSelected(p)}

\* _create_rules_section: checkbox.setChecked(True) for every rule
InitialRuleChecked == [k \in RuleSet |-> TRUE]

\* _create_rules_section: checkbox._initial_state = saved_state
InitialRuleState(stored) == [k \in RuleSet |-> SavedState(stored[k])]

\* launch_feedback_ui while subprocess.run waits for the UI process: the
\* temporary file exists and is empty
LaunchWaiting ==
    [tmp |-> [exists |-> TRUE, content |-> <<>>], exit |-> "running",
     outcome |-> "pending", value |-> <<>>]

\* _reorder_files: sorted(file_items.items(), key=(not isChecked(), path))
Reordered(chk) ==
    Sorted({p \in DOMAIN chk : chk[p]}) \o Sorted({p \in DOMAIN chk : ~chk[p]})

\* the state FeedbackUI.__init__ leaves, for given build, arguments and settings
ConstructedOn(enums, plat, files, stored) ==
    /\ platform = plat
    /\ pyside_enums = enums
    /\ launch = LaunchWaiting
    /\ modified_files = files
    /\ checked = InitialChecked(files)
    /\ selected_files = InitialSelected(files)
    /\ display = Reordered(InitialChecked(files))
    /\ rule_checked = InitialRuleChecked
    /\ rule_initial = InitialRuleState(stored)
    /\ settings_rule = stored
    /\ feedback_text = <<>>
    /\ command_entry = ""
    /\ process = None
    /\ procState = "none"
    /\ run_button = "Run"
    /\ log_buffer = <<>>
    /\ sigQueue = <<>>
    /\ pipes = <<>>
    /\ timerActive = FALSE
    /\ runs = 0
    /\ saves = 0
    /\ phase = "open"
    /\ feedback_result = <<>>
    /\ returned = <<>>
    /\ killed = {}
    /\ heldAtClose = None

\* the same on a current PySide6
Constructed(plat, files, stored) == ConstructedOn("python_enum", plat, files, stored)

\* the arguments and stored settings FeedbackUI.__init__ is called with;
\* nothing of the session exists yet
BeforeConstruction(plat, files, stored) ==
    /\ platform = plat
    /\ pyside_enums = "python_enum"
    /\ launch = LaunchWaiting
    /\ modified_files = files
    /\ settings_rule = stored
    /\ checked = << >>
    /\ selected_files = {}
    /\ display = <<>>
    /\ rule_checked = << >>
    /\ rule_initial = << >>
    /\ feedback_text = <<>>
    /\ command_entry = ""
    /\ process = None
    /\ procState = "none"
    /\ run_button = "Run"
    /\ log_buffer = <<>>
    /\ sigQueue = <<>>
    /\ pipes = <<>>
    /\ timerActive = FALSE
    /\ runs = 0
    /\ saves = 0
    /\ phase = "new"
    /\ feedback_result = <<>>
    /\ returned = <<>>
    /\ killed = {}
    /\ heldAtClose = None

\* FeedbackUI.__init__
Construct ==
    /\ phase = "new"
    /\ checked' = InitialChecked(modified_files)
    /\ selected_files' = InitialSelected(modified_files)
    /\ display' = Reordered(InitialChecked(modified_files))
    /\ rule_checked' = InitialRuleChecked
    /\ rule_initial' = InitialRuleState(settings_rule)
    /\ phase' = "open"
    /\ UNCHANGED << platform, pyside_enums, launch, modified_files, settings_rule, feedback_text,
                    command_entry, runnerVars, saves, feedback_result, returned,
                    heldAtClose, kt >>

\* ------------------------------------------------------ selection, rules
\* ClickableFileItem._on_checkbox_changed forwards to self.parent() only if it
\* has _notify_selection_changed.  FileListWidget.add_file puts the item into
\* the layout of self.container, which makes the container (a plain QWidget)
\* the item's parent.
ItemParentNotifies == FALSE

SelectionFlips(sel, path, is_checked) ==
    IF path \in sel THEN sel \ {path} ELSE sel \cup {path}

\* _on_file_selection_changed_new
SelectionAfterToggle(sel, path, is_checked) ==
    IF is_checked THEN sel \cup {path} ELSE sel \ {path}

\* a click on the checkbox or the label of one file item
ToggleFile(path) ==
    /\ phase = "open"
    /\ path \in DOMAIN checked
    /\ checked' = [checked EXCEPT ![path] = ~checked[path]]
    /\ selected_files' = IF ItemParentNotifies
                         THEN SelectionAfterToggle(selected_files, path, ~checked[path])
                         ELSE selected_files
    /\ display' = IF ItemParentNotifies THEN Reordered(checked') ELSE display
    /\ UNCHANGED << platform, pyside_enums, launch, modified_files, ruleVars, feedback_text, command_entry,
                    runnerVars, saves, endVars, kt >>

\* _on_file_selection_changed_new(file_path, is_checked), called as
\* FileListWidget._notify_selection_changed calls it
FileSelectionChanged(path, is_checked) ==
    /\ phase = "open"
    /\ selected_files' = SelectionAfterToggle(selected_files, path, is_checked)
    /\ UNCHANGED << platform, pyside_enums, launch, modified_files, checked, display, ruleVars,
                    feedback_text, command_entry, runnerVars, saves, endVars, kt >>

\* hasattr(self, 'file_list'): the list exists only for a non-empty modified_files
HasFileList == modified_files # <<>>

SelectAllTargetEverything(files) == Paths

SelectAllTargetDefaults(files) == {p \in Range(files) : DefaultSelected(p)}

\* set(self.modified_files)
SelectAllTarget(files) == Range(files)

\* _select_all_files
SelectAllFiles ==
    /\ phase = "open"
    /\ IF HasFileList
       THEN /\ checked' = [p \in DOMAIN checked |-> TRUE]
            /\ display' = Reordered(checked')
            /\ selected_files' = SelectAllTarget(modified_files)
       ELSE UNCHANGED << checked, selected_files, display >>
    /\ UNCHANGED << platform, pyside_enums, launch, modified_files, ruleVars, feedback_text, command_entry,
                    runnerVars, saves, endVars, kt >>

\* _deselect_all_files
DeselectAllFiles ==
    /\ phase = "open"
    /\ IF HasFileList
       THEN /\ checked' = [p \in DOMAIN checked |-> FALSE]
            /\ display' = Reordered(checked')
            /\ selected_files' = {}
       ELSE UNCHANGED << checked, selected_files, display >>
    /\ UNCHANGED << platform, pyside_enums, launch, modified_files, ruleVars, feedback_text, command_entry,
                    runnerVars, saves, endVars, kt >>

\* `state == Qt.Checked` in a stateChanged(int) slot, the checkbox now being
\* checked or not: an int never equals a member of a Python enum.Enum
StateIsChecked(enums, now) == IF enums = "int_enum" THEN now ELSE FALSE

\* a click on a rule checkbox or its label: _on_rule_checkbox_changed
ToggleRule(key) ==
    /\ phase = "open"
    /\ LET now == ~rule_checked[key]
           checked_seen == StateIsChecked(pyside_enums, now)
       IN  /\ rule_checked' = [rule_checked EXCEPT ![key] = now]
           /\ IF checked_seen = rule_initial[key]
              THEN UNCHANGED << rule_initial, settings_rule >>
              ELSE /\ settings_rule' = [settings_rule EXCEPT ![key] =
                                            StoredValue(checked_seen)]
                   /\ rule_initial' = [rule_initial EXCEPT ![key] = checked_seen]
    /\ UNCHANGED << platform, pyside_enums, launch, fileVars, feedback_text, command_entry, runnerVars,
                    saves, endVars, kt >>

\* typing into the feedback box, or _set_quick_feedback
SetFeedbackText(t) ==
    /\ phase = "open"
    /\ t # feedback_text
    /\ feedback_text' = t
    /\ UNCHANGED << platform, pyside_enums, launch, fileVars, ruleVars, command_entry, runnerVars, saves,
                    endVars, kt >>

\* typing into the command entry (textChanged -> _update_config)
SetCommand(c) ==
    /\ phase = "open"
    /\ c # command_entry
    /\ command_entry' = c
    /\ UNCHANGED << platform, pyside_enums, launch, fileVars, ruleVars, feedback_text, runnerVars, saves,
                    endVars, kt >>

\* -------------------------------------------------------- command runner
\* an exited child: still a pid psutil finds until it is reaped (posix), or
\* reported as not found once its exit code is set (win32)
Exited(plat) == IF plat = "win32" THEN "gone" ELSE "zombie"

\* the descendants a kill_tree call of the session may enumerate
KidLists == SeqsUpTo({"running", "gone"}, 1)

\* the root after kill_tree has signalled it: killing is asynchronous
RootAfterKill(st, plat) ==
    IF st = "running" THEN {"running", Exited(plat)} ELSE {st}

\* _append_log: the buffer with one more line
AppendLog(buf, line) == Append(buf, line)

\* outcome of the try block of _run_command: get_user_environment() is
\* evaluated first, then subprocess.Popen
StartOutcome(plat, apiOk, spawnOk) ==
    IF GetUserEnvironment(plat, apiOk) = "RuntimeError" THEN "error"
    ELSE IF spawnOk THEN "launched" ELSE "error"

HandleAfterStartKeepsFailed(outcome, h) == h

\* self.process after the try block
HandleAfterStart(outcome, h) == IF outcome = "launched" THEN h ELSE None

ButtonAfterStartStaysStop(outcome) == "Stop"

\* the run button after a start attempt with a non-empty command:
\* setText("Sto&p") before the try block, setText("&Run") in its except branch
ButtonAfterStart(outcome) == IF outcome = "launched" THEN "Stop" ELSE "Run"

\* log_buffer after a start attempt with a non-empty command
LogAfterStart(outcome, run) ==
    IF outcome = "launched"
    THEN AppendLog(<<>>, CommandEchoLine(run))
    ELSE AppendLog(AppendLog(<<>>, CommandEchoLine(run)), ErrorLine(run))

LogAfterStopReset(buf) == <<>>

\* log_buffer after the stop branch of _run_command, which returns before
\* `self.log_buffer = []`
LogAfterStop(buf) == buf

\* the pipes after kill_tree(h): the processes psutil lists below a running
\* root are killed and with them their copies of the write ends
PipesAfterKill(ps, h, st, raised) ==
    IF raised \/ st # "running" THEN ps
    ELSE [ps EXCEPT ![h] = [c \in Channels |-> [ps[h][c] EXCEPT !.held = FALSE]]]

\* _run_command with a handle held: kill_tree, then clear the handle.  An
\* exception of kill_tree leaves the slot before the handle is cleared.
StopProcess ==
    /\ process # None
    /\ \E kids \in KidLists, still \in SUBSET {0, 1} :
         LET r == KillTree(procState, kids, still)
         IN  /\ killed' = killed \cup {process}
             /\ pipes' = PipesAfterKill(pipes, process, procState, r.raised)
             /\ IF r.raised
                THEN /\ UNCHANGED << process, procState, run_button >>
                ELSE /\ process' = None
                     /\ procState' = "none"
                     /\ run_button' = "Run"
    /\ log_buffer' = LogAfterStop(log_buffer)
    /\ UNCHANGED << sigQueue, timerActive, runs >>

\* the two pipes of a child just launched, each with its reader thread started
FreshPipes ==
    [c \in Channels |-> [written |-> 0, read |-> 0, held |-> FALSE, done |-> FALSE]]

\* _run_command with no handle held, in a session of at most maxRuns launches
StartProcessUpTo(maxRuns) ==
    /\ process = None
    /\ IF command_entry = ""
       THEN /\ log_buffer' = AppendLog(<<>>, EmptyCommandLine)
            /\ UNCHANGED << process, procState, run_button, pipes, timerActive, runs >>
       ELSE \E apiOk \in BOOLEAN, spawnOk \in BOOLEAN :
              LET outcome == StartOutcome(platform, apiOk, spawnOk)
              IN  /\ outcome = "launched" => runs < maxRuns
                  /\ process' = HandleAfterStart(outcome, runs + 1)
                  /\ log_buffer' = LogAfterStart(outcome, runs + 1)
                  /\ run_button' = ButtonAfterStart(outcome)
                  /\ IF outcome = "launched"
                     THEN /\ procState' = "running"
                          /\ pipes' = Append(pipes, FreshPipes)
                          /\ timerActive' = TRUE
                          /\ runs' = runs + 1
                     ELSE /\ UNCHANGED << procState, pipes, timerActive, runs >>
    /\ UNCHANGED << sigQueue, killed >>

StartProcess == StartProcessUpTo(MaxRuns)

\* the Run/Stop button or Return in the command entry: _run_command
RunCommandUpTo(maxRuns) ==
    /\ phase = "open"
    /\ \/ StopProcess
       \/ StartProcessUpTo(maxRuns)
    /\ UNCHANGED << platform, pyside_enums, launch, fileVars, ruleVars, feedback_text,
                    command_entry, saves, endVars, kt >>

RunCommand ==
    /\ phase = "open"
    /\ \/ StopProcess
       \/ StartProcess
    /\ UNCHANGED << platform, pyside_enums, launch, fileVars, ruleVars, feedback_text, command_entry, saves,
                    endVars, kt >>

\* the child process exits on its own
ProcExit ==
    /\ phase \in {"open", "closing"}
    /\ process # None
    /\ procState = "running"
    /\ procState' = Exited(platform)
    /\ UNCHANGED << platform, pyside_enums, launch, fileVars, ruleVars, feedback_text, command_entry,
                    process, run_button, log_buffer, sigQueue, pipes, timerActive,
                    runs, killed, saves, endVars, kt >>

ConnectionDirect(sender_thread, receiver_thread) == "direct"

\* log_signals.append_log.connect(self._append_log): an automatic connection
\* calls the slot in place when the signal is emitted in the receiver's thread
\* and posts the call to the receiver's event loop otherwise
Connection(sender_thread, receiver_thread) ==
    IF sender_thread = receiver_thread THEN "direct" ELSE "queued"

\* self.log_signals.append_log.emit(line) in a reader thread
Emit(line) ==
    IF Connection("reader", "control") = "queued"
    THEN /\ sigQueue' = Append(sigQueue, line)
         /\ UNCHANGED log_buffer
    ELSE /\ log_buffer' = AppendLog(log_buffer, line)
         /\ UNCHANGED sigQueue

\* the process of launch r is still running
Alive(r) == process = r /\ procState = "running"

\* lines the child of launch r has written to both pipes
LinesWritten(r) == pipes[r]["stdout"].written + pipes[r]["stderr"].written

\* the child writes a line and the reader thread of that pipe (read_output)
\* reads it at once and emits append_log
ReaderEmit(ch) ==
    /\ phase = "open"
    /\ process # None
    /\ procState = "running"
    /\ LinesWritten(process) < MaxLines
    /\ pipes' = [pipes EXCEPT ![process][ch].written = @ + 1,
                              ![process][ch].read = @ + 1]
    /\ Emit(OutputLine(process, ch, pipes[process][ch].read + 1))
    /\ UNCHANGED << platform, pyside_enums, launch, fileVars, ruleVars, feedback_text, command_entry,
                    process, procState, run_button, timerActive, runs,
                    killed, saves, endVars, kt >>

\* the child writes one more line to a pipe
ChildWrite(ch) ==
    /\ phase \in {"open", "closing"}
    /\ process # None
    /\ Alive(process)
    /\ LinesWritten(process) < MaxWrites
    /\ pipes' = [pipes EXCEPT ![process][ch].written = @ + 1]
    /\ UNCHANGED << platform, pyside_enums, launch, fileVars, ruleVars, feedback_text, command_entry,
                    process, procState, run_button, log_buffer, sigQueue, timerActive,
                    runs, killed, saves, endVars, kt >>

\* read_output of launch r on one channel: pipe.readline() returns the next
\* line, which is emitted
ReaderRead(r, ch) ==
    /\ phase \in {"open", "closing"}
    /\ r \in DOMAIN pipes
    /\ ~pipes[r][ch].done
    /\ pipes[r][ch].read < pipes[r][ch].written
    /\ pipes' = [pipes EXCEPT ![r][ch].read = @ + 1]
    /\ Emit(OutputLine(r, ch, pipes[r][ch].read + 1))
    /\ UNCHANGED << platform, pyside_enums, launch, fileVars, ruleVars, feedback_text, command_entry,
                    process, procState, run_button, timerActive, runs,
                    killed, saves, endVars, kt >>

\* a process started by the child (Popen with shell=True runs the command
\* line in a shell) inherits the write end of a pipe and keeps it open; it
\* outlives the child when the child exits on its own
HeirHolds(ch) ==
    /\ phase \in {"open", "closing"}
    /\ process # None
    /\ Alive(process)
    /\ ~pipes[process][ch].held
    /\ pipes' = [pipes EXCEPT ![process][ch].held = TRUE]
    /\ UNCHANGED << platform, pyside_enums, launch, fileVars, ruleVars, feedback_text, command_entry,
                    process, procState, run_button, log_buffer, sigQueue, timerActive,
                    runs, killed, saves, endVars, kt >>

\* the last such process exits or closes its copy of the write end
HeirCloses(r, ch) ==
    /\ phase \in {"open", "closing"}
    /\ r \in DOMAIN pipes
    /\ pipes[r][ch].held
    /\ pipes' = [pipes EXCEPT ![r][ch].held = FALSE]
    /\ UNCHANGED << platform, pyside_enums, launch, fileVars, ruleVars, feedback_text, command_entry,
                    process, procState, run_button, log_buffer, sigQueue, timerActive,
                    runs, killed, saves, endVars, kt >>

ChannelAtEndEarly(alive, pipe) == ~alive /\ ~pipe.held

\* pipe.readline() returns "": every copy of the write end is closed and
\* nothing is left to read
ChannelAtEnd(alive, pipe) == ~alive /\ ~pipe.held /\ pipe.read = pipe.written

\* read_output of launch r on one channel: iter(pipe.readline, "") ends, the
\* pipe is closed and the thread returns
ReaderEnd(r, ch) ==
    /\ phase \in {"open", "closing"}
    /\ r \in DOMAIN pipes
    /\ ~pipes[r][ch].done
    /\ ChannelAtEnd(Alive(r), pipes[r][ch])
    /\ pipes' = [pipes EXCEPT ![r][ch].done = TRUE]
    /\ UNCHANGED << platform, pyside_enums, launch, fileVars, ruleVars, feedback_text, command_entry,
                    process, procState, run_button, log_buffer, sigQueue, timerActive,
                    runs, killed, saves, endVars, kt >>

DequeueNewest(queue) ==
    [line |-> queue[Len(queue)], rest |-> SubSeq(queue, 1, Len(queue) - 1)]

\* the event loop of the control thread takes the posted calls in the order
\* in which they were posted
Dequeue(queue) == [line |-> Head(queue), rest |-> Tail(queue)]

\* the control thread delivers the oldest queued append_log signal: _append_log
DeliverLog ==
    /\ phase \in {"open", "closing"}
    /\ sigQueue # <<>>
    /\ log_buffer' = AppendLog(log_buffer, Dequeue(sigQueue).line)
    /\ sigQueue' = Dequeue(sigQueue).rest
    /\ UNCHANGED << platform, pyside_enums, launch, fileVars, ruleVars, feedback_text, command_entry,
                    process, procState, run_button, pipes, timerActive, runs, killed,
                    saves, endVars, kt >>

PollSeesExitNever(st) == FALSE

PollSeesExitAlways(st) == TRUE

HandleAfterExitKept(h) == h

\* _check_process_status: self.process = None once the exit is logged
HandleAfterExit(h) == None

\* process.poll() is not None
PollSeesExit(st) == st # "running"

\* status_timer timeout: _check_process_status
CheckProcessStatus ==
    /\ phase \in {"open", "closing"}
    /\ timerActive
    /\ IF process # None /\ PollSeesExit(procState)
       THEN /\ log_buffer' = AppendLog(log_buffer, ExitLine(process))
            /\ run_button' = "Run"
            /\ process' = HandleAfterExit(process)
            /\ procState' = "none"
       ELSE /\ UNCHANGED << log_buffer, run_button, process, procState >>
    /\ UNCHANGED << platform, pyside_enums, launch, fileVars, ruleVars, feedback_text, command_entry,
                    sigQueue, pipes, timerActive, runs, killed, saves, endVars, kt >>

\* the Clear button: clear_logs
ClearLogs ==
    /\ phase = "open"
    /\ log_buffer' = <<>>
    /\ UNCHANGED << platform, pyside_enums, launch, fileVars, ruleVars, feedback_text, command_entry,
                    process, procState, run_button, sigQueue, pipes, timerActive,
                    runs, killed, saves, endVars, kt >>

\* the Save Configuration button: _save_config
SaveConfig ==
    /\ phase = "open"
    /\ saves < MaxSaves
    /\ saves' = saves + 1
    /\ log_buffer' = AppendLog(log_buffer, SavedLine)
    /\ UNCHANGED << platform, pyside_enums, launch, fileVars, ruleVars, feedback_text, command_entry,
                    process, procState, run_button, sigQueue, pipes, timerActive,
                    runs, killed, endVars, kt >>

\* --------------------------------------------------- submit, close, return
\* FeedbackResult(...) as run() builds it when nothing was submitted
DefaultResultDropsLogs(buf) ==
    [command_logs |-> <<>>, interactive_feedback |-> <<>>,
     modified_files_content |-> NoneText, selected_files |-> <<>>]

DefaultResult(buf) ==
    [command_logs |-> Flatten(buf), interactive_feedback |-> <<>>,
     modified_files_content |-> NoneText, selected_files |-> <<>>]

SubmittedResultContentIsDoc(buf, raw_text, isChecked, sel, fs, order) ==
    LET content == GetSelectedFilesContent(sel, fs)
    IN  [command_logs |-> Flatten(buf),
         interactive_feedback |-> Compose(raw_text, isChecked, content),
         modified_files_content |-> SomeText(Compose(raw_text, isChecked, content)),
         selected_files |-> order]

\* FeedbackResult(...) as _submit_feedback builds it; `order` is the order in
\* which list(self.selected_files) iterates the set
SubmittedResult(buf, raw_text, isChecked, sel, fs, order) ==
    LET content == GetSelectedFilesContent(sel, fs)
    IN  [command_logs |-> Flatten(buf),
         interactive_feedback |-> Compose(raw_text, isChecked, content),
         modified_files_content |-> content,
         selected_files |-> order]

CloseKillsNever(p) == FALSE

\* closeEvent: `if self.process:`
CloseKills(p) == p # None

\* run(): `if self.process:` after the event loop has ended
ReturnKills(p) == p # None

\* closeEvent.  An exception of kill_tree ends the handler; the window closes
\* all the same and the handle is left as it is.
CloseEvent ==
    /\ heldAtClose' = process
    /\ phase' = "closing"
    /\ IF CloseKills(process)
       THEN \E kids \in KidLists, still \in SUBSET {0, 1},
               ns \in RootAfterKill(procState, platform) :
              /\ killed' = killed \cup {process}
              /\ pipes' = PipesAfterKill(pipes, process, procState,
                                         KillTree(procState, kids, still).raised)
              /\ procState' = IF KillTree(procState, kids, still).raised
                              THEN procState ELSE ns
       ELSE UNCHANGED << killed, procState, pipes >>

\* the window is closed without a submission
CloseWindow ==
    /\ phase = "open"
    /\ CloseEvent
    /\ UNCHANGED << platform, pyside_enums, launch, fileVars, ruleVars, feedback_text, command_entry,
                    process, run_button, log_buffer, sigQueue, timerActive,
                    runs, saves, feedback_result, returned, kt >>

\* the Send Feedback button or Ctrl+Enter: _submit_feedback, which ends in
\* self.close()
SubmitWith(outcomes) ==
    /\ phase = "open"
    /\ \E fs \in [selected_files -> outcomes], order \in Orderings(selected_files) :
         feedback_result' = << SubmittedResult(log_buffer, feedback_text, rule_checked,
                                               selected_files, fs, order) >>
    /\ CloseEvent
    /\ UNCHANGED << platform, pyside_enums, launch, fileVars, ruleVars, feedback_text, command_entry,
                    process, run_button, log_buffer, sigQueue, timerActive,
                    runs, saves, returned, kt >>

\* a submission with every read outcome possible for each selected file
SubmitFeedback == SubmitWith(FileOutcomes)

\* a submission in a project directory where every selected file is readable
SubmitReadable == SubmitWith({o \in FileOutcomes : o.kind = "ok"})

ResultOfRebuilt(fr, buf) ==
    IF fr = <<>> THEN DefaultResult(buf)
    ELSE [fr[1] EXCEPT !.command_logs = Flatten(buf)]

\* what run() returns: the submitted result, or the default one
ResultOf(fr, buf) == IF fr = <<>> THEN DefaultResult(buf) ELSE fr[1]

\* run() after QApplication.exec() has returned.  An exception of kill_tree
\* leaves run() and no result is returned.
RunReturn ==
    /\ phase = "closing"
    /\ IF ReturnKills(process)
       THEN \E kids \in KidLists, still \in SUBSET {0, 1},
               ns \in RootAfterKill(procState, platform) :
              /\ killed' = killed \cup {process}
              /\ pipes' = PipesAfterKill(pipes, process, procState,
                                         KillTree(procState, kids, still).raised)
              /\ IF KillTree(procState, kids, still).raised
                 THEN /\ phase' = "crashed"
                      /\ returned' = <<>>
                      /\ UNCHANGED procState
                 ELSE /\ phase' = "returned"
                      /\ returned' = << ResultOf(feedback_result, log_buffer) >>
                      /\ procState' = ns
       ELSE /\ phase' = "returned"
            /\ returned' = << ResultOf(feedback_result, log_buffer) >>
            /\ UNCHANGED << killed, procState, pipes >>
    /\ UNCHANGED << platform, pyside_enums, launch, fileVars, ruleVars, feedback_text, command_entry,
                    process, run_button, log_buffer, sigQueue, timerActive,
                    runs, saves, feedback_result, heldAtClose, kt >>

\* ------------------------------------------- the server's side of a session
\* json.dump(result, f): a str as a JSON string, None as null, a list as an
\* array
JsonDump(r) ==
    [command_logs |-> <<"string", r.command_logs>>,
     interactive_feedback |-> <<"string", r.interactive_feedback>>,
     modified_files_content |-> IF r.modified_files_content.present
                                THEN <<"string", r.modified_files_content.text>>
                                ELSE <<"null">>,
     selected_files |-> <<"array", [i \in 1..Len(r.selected_files) |->
                                      <<"string", r.selected_files[i]>>]>>]

\* json.load(f) of such a document
JsonLoad(j) ==
    [command_logs |-> j.command_logs[2],
     interactive_feedback |-> j.interactive_feedback[2],
     modified_files_content |-> IF j.modified_files_content[1] = "null"
                                THEN NoneText
                                ELSE SomeText(j.modified_files_content[2]),
     selected_files |-> [i \in 1..Len(j.selected_files[2]) |-> j.selected_files[2][i][2]]]

\* the UI process ends before a window exists (no display, a failing import,
\* an exception in FeedbackUI.__init__): a non-zero exit code
UiAborts ==
    /\ phase = "new"
    /\ launch.exit = "running"
    /\ phase' = "aborted"
    /\ launch' = [launch EXCEPT !.exit = "nonzero"]
    /\ UNCHANGED << platform, pyside_enums, fileVars, ruleVars, feedback_text,
                    command_entry, runnerVars, saves, feedback_result, returned,
                    heldAtClose, kt >>

\* feedback_ui() after ui.run(), and the end of __main__: the result is
\* written to the output file and the process exits with sys.exit(0); left by
\* an uncaught exception, the interpreter exits with a non-zero code
UiExit ==
    /\ phase \in {"returned", "crashed"}
    /\ launch.exit = "running"
    /\ launch' = [launch EXCEPT
                    !.exit = IF phase = "returned" THEN "zero" ELSE "nonzero",
                    !.tmp.content = IF phase = "returned"
                                    THEN << JsonDump(returned[1]) >> ELSE @]
    /\ UNCHANGED << platform, pyside_enums, fileVars, ruleVars, feedback_text,
                    command_entry, runnerVars, saves, endVars, kt >>

\* launch_feedback_ui after subprocess.run has returned: raise on a non-zero
\* return code, else read the file; os.unlink removes the file on both paths
LaunchReturn ==
    /\ launch.exit # "running"
    /\ launch.outcome = "pending"
    /\ IF launch.exit = "nonzero" \/ launch.tmp.content = <<>>
       THEN launch' = [launch EXCEPT
                         !.outcome = "raised",
                         !.tmp.exists = FALSE]
       ELSE launch' = [launch EXCEPT
                         !.outcome = "returned",
                         !.value = << JsonLoad(launch.tmp.content[1]) >>,
                         !.tmp.exists = FALSE]
    /\ UNCHANGED << platform, pyside_enums, fileVars, ruleVars, feedback_text,
                    command_entry, runnerVars, saves, endVars, kt >>

\* ------------------------------------------------ kill_tree on its own
KillTreeCall ==
    /\ kt.stage = "input"
    /\ kt' = [kt EXCEPT !.stage = "done",
                        !.result = KillTree(kt.root, kt.kids, kt.still)]
    /\ UNCHANGED << platform, pyside_enums, launch, fileVars, ruleVars, feedback_text, command_entry,
                    runnerVars, saves, endVars >>

\* -------------------------------------------------------- specifications
NoStored == [k \in RuleSet |-> "unset"]

\* settings left by earlier sessions of the project
StoredChoices ==
    { NoStored,
      [k \in RuleSet |-> IF k = "single_operation" THEN "false" ELSE "unset"] }

SessionFiles == << <<"a", ".", "m", "d">> >>

\* a session on either platform with one candidate file
Init ==
    /\ \E plat \in {"win32", "posix"} : Constructed(plat, SessionFiles, NoStored)
    /\ kt = KtIdle

Next ==
    \/ SelectAllFiles
    \/ DeselectAllFiles
    \/ \E t \in {<<>>, <<"o", "k">>} : SetFeedbackText(t)
    \/ \E c \in Commands : SetCommand(c)
    \/ RunCommand
    \/ ProcExit
    \/ \E ch \in Channels : ReaderEmit(ch)
    \/ DeliverLog
    \/ CheckProcessStatus
    \/ SubmitReadable
    \/ CloseWindow
    \/ RunReturn

Spec == Init /\ [][Next]_vars

\* every candidate list, stored rule choice and free text; no command is run
InitCompose ==
    /\ \E files \in SeqsUpTo(Paths, MaxFiles), stored \in StoredChoices :
         Constructed("posix", files, stored)
    /\ kt = KtIdle

NextCompose ==
    \/ \E p \in Paths : ToggleFile(p)
    \/ SelectAllFiles
    \/ DeselectAllFiles
    \/ \E k \in RuleSet : ToggleRule(k)
    \/ \E t \in Texts : SetFeedbackText(t)
    \/ SubmitFeedback
    \/ CloseWindow
    \/ RunReturn

SpecCompose == InitCompose /\ [][NextCompose]_vars

\* kill_tree applied to every state of a small process tree
InitKill ==
    /\ Constructed("posix", <<>>, NoStored)
    /\ \E r \in ProcStates, ks \in SeqsUpTo(ProcStates, MaxKids) :
         \E st \in SUBSET ({0} \cup {i \in 1..Len(ks) : ks[i] # "gone"}) :
           kt = [stage |-> "input", root |-> r, kids |-> ks, still |-> st,
                 result |-> [raised |-> FALSE, signals |-> <<>>]]

NextKill == KillTreeCall

SpecKill == InitKill /\ [][NextKill]_vars

\* settings left by earlier sessions, every combination
AllStored == [RuleSet -> {"unset", "true", "false"}]

\* construction for every candidate list and every stored rule choice
InitConstruct ==
    /\ \E plat \in {"win32", "posix"}, files \in SeqsUpTo(Paths, MaxFiles),
          stored \in AllStored :
         BeforeConstruction(plat, files, stored)
    /\ kt = KtIdle

NextConstruct == Construct

SpecConstruct == InitConstruct /\ [][NextConstruct]_vars

\* the selection handlers applied to every candidate list, path and value
NextSelect ==
    \/ \E p \in Range(modified_files), v \in BOOLEAN : FileSelectionChanged(p, v)
    \/ SelectAllFiles
    \/ DeselectAllFiles

SpecSelect == InitCompose /\ [][NextSelect]_vars

\* the command runner alone; the status timer fires every 100 ms while the
\* event loop runs, so the poll is weakly fair
NextLive ==
    \/ \E c \in Commands : SetCommand(c)
    \/ RunCommand
    \/ ProcExit
    \/ \E ch \in Channels : ReaderEmit(ch)
    \/ DeliverLog
    \/ CheckProcessStatus
    \/ CloseWindow
    \/ RunReturn

SpecLive == Init /\ [][NextLive]_vars /\ WF_vars(CheckProcessStatus)

\* the operations that touch or must not touch the log buffer
NextLog ==
    \/ \E c \in Commands : SetCommand(c)
    \/ RunCommand
    \/ ProcExit
    \/ \E ch \in Channels : ReaderEmit(ch)
    \/ DeliverLog
    \/ CheckProcessStatus
    \/ ClearLogs
    \/ SaveConfig
    \/ \E p \in Range(SessionFiles) : ToggleFile(p)
    \/ ToggleRule("single_operation")
    \/ SubmitReadable
    \/ CloseWindow
    \/ RunReturn

SpecLog == Init /\ [][NextLog]_vars

\* the rule checkboxes alone, on both kinds of PySide6 build and over every
\* stored rule choice
InitRules ==
    /\ \E enums \in {"int_enum", "python_enum"}, plat \in {"win32", "posix"}, stored \in AllStored :
         ConstructedOn(enums, plat, <<>>, stored)
    /\ kt = KtIdle

NextRules ==
    \/ \E k \in RuleSet : ToggleRule(k)
    \/ CloseWindow
    \/ RunReturn

SpecRules == InitRules /\ [][NextRules]_vars

\* the file list alone: clicks on items and the two buttons
NextList ==
    \/ \E p \in Paths : ToggleFile(p)
    \/ SelectAllFiles
    \/ DeselectAllFiles

SpecList == InitCompose /\ [][NextList]_vars

\* the child, its two pipes and their reader threads as separate steps.  A
\* reader thread is scheduled by the operating system whenever it can run.
NextReaders ==
    \/ \E c \in Commands : SetCommand(c)
    \/ RunCommand
    \/ ProcExit
    \/ \E ch \in Channels : ChildWrite(ch)
    \/ \E ch \in Channels : HeirHolds(ch)
    \/ \E r \in 1..MaxRuns, ch \in Channels : HeirCloses(r, ch)
    \/ \E r \in 1..MaxRuns, ch \in Channels : ReaderRead(r, ch)
    \/ \E r \in 1..MaxRuns, ch \in Channels : ReaderEnd(r, ch)
    \/ DeliverLog
    \/ CheckProcessStatus
    \/ CloseWindow
    \/ RunReturn

ReadersFair ==
    \A r \in 1..MaxRuns, ch \in Channels :
      WF_vars(ReaderRead(r, ch)) /\ WF_vars(ReaderEnd(r, ch))

SpecReaders == Init /\ [][NextReaders]_vars /\ ReadersFair

\* stop and restart of the command while lines of the stopped run are still
\* queued
NextRestart ==
    \/ \E c \in Commands : SetCommand(c)
    \/ RunCommandUpTo(MaxRestarts)
    \/ ProcExit
    \/ \E ch \in Channels : ReaderEmit(ch)
    \/ DeliverLog
    \/ CheckProcessStatus

SpecRestart == Init /\ [][NextRestart]_vars

\* a session as the server runs it: from the start of the UI process to the
\* return of launch_feedback_ui
InitLaunch ==
    /\ \E plat \in {"win32", "posix"} : BeforeConstruction(plat, SessionFiles, NoStored)
    /\ kt = KtIdle

NextLaunch ==
    \/ Construct
    \/ UiAborts
    \/ \E t \in {<<>>, <<"o", "k">>} : SetFeedbackText(t)
    \/ \E c \in Commands : SetCommand(c)
    \/ RunCommand
    \/ ProcExit
    \/ \E ch \in Channels : ReaderEmit(ch)
    \/ DeliverLog
    \/ CheckProcessStatus
    \/ SubmitReadable
    \/ CloseWindow
    \/ RunReturn
    \/ UiExit
    \/ LaunchReturn

SpecLaunch == InitLaunch /\ [][NextLaunch]_vars

\* ---------------------------------------------------------------- claims
Submitted == feedback_result # <<>>

\* interactive_feedback of the submitted result
Doc == feedback_result[1].interactive_feedback

HasRules == \E k \in RuleSet : rule_checked[k]
HasFiles == selected_files # {}

\* first position of an atom in a document, 0 when it does not occur
IndexOf(doc, a) ==
    IF \E i \in 1..Len(doc) : doc[i] = a
    THEN CHOOSE i \in 1..Len(doc) : doc[i] = a /\ \A j \in 1..(i - 1) : doc[j] # a
    ELSE 0

\* t is s without its leading and trailing whitespace
IsTrimOf(t, s) ==
    /\ t = <<>> \/ (~IsSpace(t[1]) /\ ~IsSpace(t[Len(t)]))
    /\ \E i \in 1..(Len(s) + 1) :
         /\ i + Len(t) - 1 <= Len(s)
         /\ t = SubSeq(s, i, i + Len(t) - 1)
         /\ \A j \in 1..Len(s) : (j < i \/ j > i + Len(t) - 1) => IsSpace(s[j])

\* the free text as the document must carry it
TrimmedTextPresent ==
    \E n \in 1..Len(feedback_text) :
      IsTrimOf(SubSeq(Doc, Len(Doc) - n + 1, Len(Doc)), feedback_text)

\* where the free text starts in the document
TextStart ==
    Len(Doc) + 1 - (CHOOSE n \in 1..Len(feedback_text) :
                      IsTrimOf(SubSeq(Doc, Len(Doc) - n + 1, Len(Doc)), feedback_text))

AllThree ==
    /\ Submitted /\ HasRules /\ HasFiles
    /\ \E i \in 1..Len(feedback_text) : ~IsSpace(feedback_text[i])

\* C1 as stated: with a rule enabled, a file selected and non-empty free text,
\* the rules section comes before the files section, and the files section
\* before the free text.
C1_RulesThenFilesThenText ==
    AllThree =>
      /\ 0 < IndexOf(Doc, RulesHeader)
      /\ IndexOf(Doc, RulesHeader) < IndexOf(Doc, FilesHeader)
      /\ TrimmedTextPresent
      /\ IndexOf(Doc, FilesHeader) < TextStart

\* C1 amended: with a rule enabled, a file selected and non-empty free text, the
\* files section (its header and every file heading) comes before the rules
\* section (its header and every enabled rule's text), which comes before the
\* free text, which ends the document.
C1_FilesThenRulesThenText ==
    AllThree =>
      /\ IndexOf(Doc, FilesHeader) = 1
      /\ IndexOf(Doc, FilesHeader) < IndexOf(Doc, RulesHeader)
      /\ \A i \in 1..Len(Doc) : Doc[i] = "### " => i < IndexOf(Doc, RulesHeader)
      /\ TrimmedTextPresent
      /\ IndexOf(Doc, RulesHeader) < TextStart
      /\ \A k \in RuleSet : rule_checked[k] =>
           /\ IndexOf(Doc, RulesHeader) < IndexOf(Doc, RuleText(k))
           /\ IndexOf(Doc, RuleText(k)) < TextStart

C1_Witness ==
    AllThree /\ phase = "returned" /\ Cardinality(selected_files) = 2

\* C2 as stated: free text empty after trimming and a rule enabled or a file
\* selected: the document holds no "## User Feedback:" heading.
C2_NoHeadingWithoutText ==
    (/\ Submitted
     /\ \A i \in 1..Len(feedback_text) : IsSpace(feedback_text[i])
     /\ HasRules \/ HasFiles)
    => IndexOf(Doc, UserHeader) = 0

\* C3: with no rule enabled and no file selected the document is exactly the
\* free text without its leading and trailing whitespace.
C3_TextAlone ==
    (Submitted /\ ~HasRules /\ ~HasFiles) => IsTrimOf(Doc, feedback_text)

\* C2 amended: free text empty after trimming and a rule enabled or a file
\* selected: the document holds no "## User Feedback:" heading when only
\* rules are enabled or only files are selected; when a rule is enabled and a
\* file is selected the heading is there, directly above the rules section.
C2_HeadingOnlyAboveRules ==
    (/\ Submitted
     /\ \A i \in 1..Len(feedback_text) : IsSpace(feedback_text[i])
     /\ HasRules \/ HasFiles)
    => /\ IndexOf(Doc, UserHeader) # 0 <=> (HasRules /\ HasFiles)
       /\ IndexOf(Doc, UserHeader) # 0 =>
            /\ IndexOf(Doc, RulesHeader) = IndexOf(Doc, UserHeader) + 2
            /\ \A i \in 1..Len(Doc) :
                 Doc[i] = UserHeader => i = IndexOf(Doc, UserHeader)

C2_Witness ==
    /\ Submitted /\ phase = "returned"
    /\ feedback_text = <<" ">>
    /\ ~HasRules /\ HasFiles

C3_Witness ==
    /\ Submitted /\ ~HasRules /\ ~HasFiles /\ phase = "returned"
    /\ feedback_text = <<" ", "o", "k", "\n">>
    /\ modified_files # <<>>

Returned == phase = "returned"

\* C4: a session closed without a submission returns empty feedback, no files
\* block, no selected files, and the log buffer joined as text.
C4_ClosedWithoutSubmit ==
    (Returned /\ ~Submitted) =>
      /\ returned[1].interactive_feedback = <<>>
      /\ ~returned[1].modified_files_content.present
      /\ returned[1].selected_files = <<>>
      /\ returned[1].command_logs = Flatten(log_buffer)

C4_Witness ==
    /\ Returned /\ ~Submitted
    /\ log_buffer # <<>> /\ Len(returned[1].command_logs) > 3
    /\ selected_files # {} /\ feedback_text # <<>>

\* C5: when the session ends with a handle held, kill_tree has been invoked on
\* that handle by the time closeEvent is over, hence before run() returns.
C5_TerminatorInvokedAtEnd ==
    /\ (phase # "open" /\ heldAtClose # None) => heldAtClose \in killed
    /\ (Returned /\ process # None) => process \in killed

C5_Witness ==
    Returned /\ heldAtClose # None /\ process = heldAtClose /\ process \in killed

\* C6 as stated: every closed session returns a result; no error raised while
\* stopping the process prevents it.
C6_ClosedSessionReturns == phase # "crashed"

\* C7 as stated: a start request issued while a handle is held clears the
\* handle and launches nothing.
C7_StartIsToggle ==
    [][(phase = "open" /\ process # None /\ RunCommand)
         => (process' = None /\ runs' = runs)]_vars

\* C8 as stated: once kill_tree has been invoked on the held handle, by any
\* path, the handle is cleared.
C8_NoHandleAfterTerminate == process # None => process \notin killed

\* C9 as stated: kill_tree returns normally for every state of the root and of
\* each descendant.
C9_TerminatorNeverRaises == kt.stage = "done" => ~kt.result.raised

\* a start request with a command that ends without a launch
FailedStart ==
    /\ phase = "open" /\ process = None /\ command_entry # ""
    /\ RunCommand
    /\ runs' = runs

\* the state a failed start leaves
AfterFailedStart ==
    /\ phase = "open" /\ process = None
    /\ log_buffer # <<>>
    /\ log_buffer[Len(log_buffer)] = ErrorLine(runs + 1)
    /\ sigQueue = <<>>

\* C10: a failed start appends the error line, leaves the handle empty and the
\* button on Run, keeps the session open, and a start request can launch
\* afterwards.
C10_FailedStartNotFatal ==
    /\ [][FailedStart =>
            /\ process' = None
            /\ run_button' = "Run"
            /\ phase' = "open"
            /\ log_buffer' # <<>>
            /\ log_buffer'[Len(log_buffer')] = ErrorLine(runs + 1)]_vars
    /\ []((AfterFailedStart /\ command_entry # "" /\ runs < MaxRuns)
            => ENABLED (RunCommand /\ process' # None))

C10_Witness == AfterFailedStart /\ run_button = "Run" /\ platform = "win32"

\* the handle of launch r is held and its process has exited on its own
ExitedHeld(r) == phase = "open" /\ process = r /\ procState = Exited(platform)

\* the exit line of launch r is in the log buffer
ExitRecorded(r) == \E i \in 1..Len(log_buffer) : log_buffer[i] = ExitLine(r)

\* C11 as stated: once a launched process has exited on its own, and while the
\* session stays open, the poll eventually has the exit line in the log
\* buffer, the handle cleared and the button back on Run.
C11_ExitEventuallyRecorded ==
    \A r \in 1..MaxRuns :
      ExitedHeld(r) ~> (\/ phase # "open"
                        \/ (process = None /\ run_button = "Run" /\ ExitRecorded(r)))

\* C11 amended: once a launched process has exited on its own, and while the
\* session stays open, the handle is eventually cleared and the button is
\* back on Run; the step that clears it appends the exit line, unless it is a
\* stop request of the user.
C11_ExitEventuallyCleared ==
    /\ \A r \in 1..MaxRuns :
         ExitedHeld(r) ~> (phase # "open" \/ (process = None /\ run_button = "Run"))
    /\ [][\A r \in 1..MaxRuns :
            (ExitedHeld(r) /\ process' = None) =>
               \/ RunCommand
               \/ /\ log_buffer' = Append(log_buffer, ExitLine(r))
                  /\ run_button' = "Run"]_vars

C11_Witness ==
    /\ phase = "open" /\ process = None /\ run_button = "Run"
    /\ ExitRecorded(1) /\ log_buffer[Len(log_buffer)] = ExitLine(1)
    /\ Len(log_buffer) > 2

\* a is an initial segment of b
IsPrefix(a, b) == Len(a) <= Len(b) /\ a = SubSeq(b, 1, Len(a))

\* C12 as stated: a step that removes or reorders lines of the log buffer is
\* the user's clear or the restart of a command run.
C12_LogAppendOnly ==
    [][~IsPrefix(log_buffer, log_buffer') => (\/ ClearLogs
            \/ (phase = "open" /\ process = None /\ command_entry # "" /\ RunCommand))]_vars

\* C13 as stated: a start request with an empty command launches nothing,
\* leaves the handle empty and keeps the lines already in the log buffer.
C13_EmptyStartKeepsLog ==
    [][(phase = "open" /\ process = None /\ command_entry = "" /\ RunCommand) =>
         /\ process' = None
         /\ runs' = runs
         /\ IsPrefix(log_buffer, log_buffer')]_vars

\* C14: selected_files holds candidate files only.
C14_SelectedAreCandidates == selected_files \subseteq Range(modified_files)

C14_Witness ==
    /\ phase = "open"
    /\ Cardinality(selected_files) = 2
    /\ \E p \in selected_files : ~DefaultSelected(p) /\ ~checked[p]

\* the session as __init__ has just left it
JustConstructed == phase = "open"

\* C15 as stated: after construction selected_files is the set of candidates
\* whose path ends in ".md".
C15_DefaultIsDotMd ==
    JustConstructed =>
      selected_files = {p \in Range(modified_files) : EndsWith(p, <<".", "m", "d">>)}

\* C15 amended: after construction selected_files is the set of candidates
\* whose path ends in ".md" when letter case is ignored.
C15_DefaultIsDotMdAnyCase ==
    JustConstructed =>
      selected_files =
        {p \in Range(modified_files) : EndsWith(Lower(p), <<".", "m", "d">>)}

C15_Witness ==
    /\ JustConstructed
    /\ modified_files = << <<"C", ".", "M", "D">>, <<"b", ".", "p", "y">> >>
    /\ selected_files = { <<"C", ".", "M", "D">> }

\* C16: a call of the selection handler with a path and a value leaves a set
\* that a second call with the same path and value does not change, and the
\* call changes the membership of no other path.
C16_ToggleIdempotent ==
    [][\A p \in Paths, v \in BOOLEAN :
         FileSelectionChanged(p, v) =>
           /\ SelectionAfterToggle(selected_files', p, v) = selected_files'
           /\ (p \in selected_files') = v
           /\ \A q \in Paths \ {p} : (q \in selected_files') = (q \in selected_files)]_vars

C16_Witness ==
    /\ phase = "open"
    /\ Cardinality(Range(modified_files)) = 2
    /\ Cardinality(selected_files) = 1
    /\ \E p \in selected_files : ~DefaultSelected(p) /\ ~checked[p]

\* C17: select-all leaves exactly the candidate files selected and
\* deselect-all leaves none selected, whatever was selected before.
C17_SelectAllDeselectAll ==
    [][/\ SelectAllFiles => selected_files' = Range(modified_files)
       /\ DeselectAllFiles => selected_files' = {}]_vars

C17_Witness ==
    /\ phase = "open"
    /\ Cardinality(Range(modified_files)) = 2
    /\ selected_files = Range(modified_files)
    /\ \A p \in Range(modified_files) : checked[p]
    /\ \E p \in selected_files : ~DefaultSelected(p)

\* C18 as stated: after construction a rule is enabled unless the value
\* stored for it is false, in which case it is disabled.
C18_StoredChoiceOverrides ==
    JustConstructed =>
      \A k \in RuleSet : rule_checked[k] = (settings_rule[k] # "false")

\* C19 as stated: selected_files of a submitted result lists the selected
\* paths once each, in lexical order.
C19_SelectedFilesSorted ==
    Submitted => feedback_result[1].selected_files = Sorted(selected_files)

\* C20: in a returned result modified_files_content is absent exactly when the
\* result's selected_files is empty; when present it is the files block of
\* the selected files for some outcome of reading them, and nothing else.
C20_ContentIsFilesBlock ==
    Returned =>
      LET r == returned[1]
      IN  /\ r.modified_files_content.present = (r.selected_files # <<>>)
          /\ r.modified_files_content.present =>
               /\ \E fs \in [Range(r.selected_files) -> FileOutcomes] :
                    r.modified_files_content =
                       GetSelectedFilesContent(Range(r.selected_files), fs)
               /\ IndexOf(r.modified_files_content.text, RulesHeader) = 0
               /\ IndexOf(r.modified_files_content.text, UserHeader) = 0

C20_Witness ==
    /\ Returned /\ AllThree
    /\ Cardinality(selected_files) = 2
    /\ returned[1].modified_files_content.present
    /\ returned[1].interactive_feedback # returned[1].modified_files_content.text

\* modified_files_content of the submitted result
Block == feedback_result[1].modified_files_content.text

\* length of the paths of the path alphabet
PathLen == Len(<<"a", ".", "m", "d">>)

RECURSIVE HeadingPaths(_)
\* the paths that follow the "### " headings of a block, in order
HeadingPaths(b) ==
    IF b = <<>> THEN <<>>
    ELSE IF Head(b) = "### " /\ Len(b) > PathLen
         THEN << SubSeq(b, 2, PathLen + 1) >> \o HeadingPaths(Tail(b))
         ELSE HeadingPaths(Tail(b))

\* what follows the path of the heading at position i: the fenced content of a
\* readable file, or a failure note
HeadingBodyOk(b, i) ==
    LET j == i + PathLen + 1
    IN  \/ /\ j + 6 <= Len(b)
           /\ SubSeq(b, j, j + 6) = <<"\n", Fence, "\n", "hello", "\n", Fence, "\n">>
        \/ /\ j + 1 <= Len(b)
           /\ SubSeq(b, j, j + 1) = <<" (file not found)", "\n">>
        \/ /\ j + 3 <= Len(b)
           /\ SubSeq(b, j, j + 3) =
                <<" (error reading: ", "Permission denied", ")", "\n">>

\* C21: for every selection and every outcome of reading each selected file,
\* the files block of a submission has one heading per selected path, in
\* lexical order, each followed by the file's content or by a failure note,
\* and the composed feedback of the result carries that block.
C21_UnreadableFileNeverAborts ==
    (Submitted /\ HasFiles) =>
      /\ feedback_result[1].modified_files_content.present
      /\ HeadingPaths(Block) = Sorted(selected_files)
      /\ \A i \in 1..Len(Block) : Block[i] = "### " => HeadingBodyOk(Block, i)
      /\ IsPrefix(Block, Doc)

C21_Witness ==
    /\ Submitted /\ Cardinality(selected_files) = 2
    /\ IndexOf(Block, " (file not found)") # 0
    /\ IndexOf(Block, " (file not found)") < IndexOf(Block, "hello")

\* the lines of the rules section of a document: what follows the rules
\* header up to the blank line before the free text, without the newlines
RuleLines(doc) ==
    LET h == IndexOf(doc, RulesHeader)
        rest == SubSeq(doc, h + 1, Len(doc))
        items == SelectSeq(rest, LAMBDA a : a \in {RuleText(k) : k \in RuleSet})
    IN  items

\* the texts of the enabled rules, in declaration order
EnabledRuleTexts ==
    (IF rule_checked["single_operation"]
     THEN << RuleText("single_operation") >> ELSE << >>)
    \o (IF rule_checked["no_new_md"] THEN << RuleText("no_new_md") >> ELSE << >>)

\* C22: the composed feedback holds the rules header iff a rule is enabled,
\* and then the enabled rules, one "- text" line each, in declaration order,
\* whatever the order of the toggles.
C22_RulesInDeclarationOrder ==
    Submitted =>
      /\ (IndexOf(Doc, RulesHeader) # 0) = HasRules
      /\ HasRules =>
           /\ RuleLines(Doc) = EnabledRuleTexts
           /\ \A i \in 1..Len(Doc) :
                Doc[i] \in {RuleText(k) : k \in RuleSet} =>
                  /\ i > 2
                  /\ Doc[i - 1] = "- "
                  /\ Doc[i - 2] = "\n"
           /\ \A i \in 1..Len(Doc) : Doc[i] = RulesHeader => i = IndexOf(Doc, RulesHeader)
      /\ ~HasRules => \A i \in 1..Len(Doc) : Doc[i] \notin {RuleText(k) : k \in RuleSet}

C22_Witness ==
    /\ Submitted /\ \A k \in RuleSet : rule_checked[k]
    /\ \A k \in RuleSet : settings_rule[k] # "unset"

\* C23: once a submission has set the result, no step changes it, and the
\* session returns that very result.
C23_ResultAssignedOnce ==
    /\ [][Submitted => feedback_result' = feedback_result]_vars
    /\ []((Returned /\ Submitted) => returned[1] = feedback_result[1])

C23_Witness ==
    /\ Returned /\ Submitted
    /\ returned[1].command_logs # Flatten(log_buffer)
    /\ returned[1].interactive_feedback # <<>>

\* the targets of a kill_tree call: the root (0) and the enumerated descendants
KtTargets == 0..Len(kt.kids)

\* C26 as stated: kill_tree returns after it has sent a kill to every
\* enumerated descendant and to the root, and after all kills a terminate to
\* exactly the targets still reported as running; a signal that fails stops
\* nothing.
C26_TwoPhaseTermination ==
    kt.stage = "done" =>
      LET sig == kt.result.signals
          n   == Cardinality(KtTargets)
      IN  /\ ~kt.result.raised
          /\ Len(sig) >= n
          /\ \A i \in 1..n : sig[i].sig = "kill"
          /\ {sig[i].target : i \in 1..n} = KtTargets
          /\ \A i \in (n + 1)..Len(sig) : sig[i].sig = "terminate"
          /\ {sig[i].target : i \in (n + 1)..Len(sig)} = kt.still

\* C29 as stated: a step that toggles a rule leaves the settings store
\* holding that rule's new enabled state, whatever was stored before; no other
\* step changes either, so every rule toggled at least once is stored as it
\* stands.
C29_RuleStateWrittenBack ==
    [][\A k \in RuleSet :
         rule_checked'[k] # rule_checked[k] =>
           settings_rule'[k] = StoredValue(rule_checked'[k])]_vars

\* C30 as stated: while the window is open, every checked file item is
\* displayed above every unchecked one, and items of equal state are in
\* lexical order of path.
C30_DisplayOrder ==
    phase = "open" =>
      /\ Range(display) = DOMAIN checked
      /\ \A i, j \in 1..Len(display) :
           i < j =>
             /\ checked[display[j]] => checked[display[i]]
             /\ checked[display[i]] = checked[display[j]] =>
                  StrLess(display[i], display[j])

\* a buffer entry that is a line read from a pipe
IsOutput(line) == line[1].k = "output"

\* C24: two lines of the log buffer that were read from the same channel of
\* the same process stand in the order in which they were read; nothing is
\* required of lines of different channels.
C24_ChannelOrderPreserved ==
    \A i, j \in 1..Len(log_buffer) :
      ( /\ i < j
        /\ IsOutput(log_buffer[i]) /\ IsOutput(log_buffer[j])
        /\ log_buffer[i][1].run = log_buffer[j][1].run
        /\ log_buffer[i][1].ch = log_buffer[j][1].ch )
      => log_buffer[i][1].n < log_buffer[j][1].n

C24_Witness ==
    \E i, j, k \in 1..Len(log_buffer) :
      /\ i < j /\ j < k
      /\ log_buffer[i] = OutputLine(1, "stdout", 1)
      /\ log_buffer[j] = OutputLine(1, "stderr", 1)
      /\ log_buffer[k] = OutputLine(1, "stdout", 2)

\* a reader thread has taken a step: it has read a line or has finished
ReaderStepped ==
    \E r \in DOMAIN pipes, ch \in Channels :
      \/ pipes'[r][ch].read # pipes[r][ch].read
      \/ pipes'[r][ch].done # pipes[r][ch].done

\* everything of the session but the pipes and the queue of posted signals
sessionState ==
    << log_buffer, fileVars, ruleVars, feedback_text, command_entry, process,
       procState, run_button, timerActive, runs, killed, saves, endVars >>

\* C25: a step of a reader thread changes nothing of the session but the
\* queue of signals posted to the control thread, and every step that changes
\* the log buffer is a handler run by the control thread.
C25_SingleWriter ==
    [][ /\ ReaderStepped => UNCHANGED sessionState
        /\ log_buffer' # log_buffer =>
             (RunCommand \/ DeliverLog \/ CheckProcessStatus) ]_vars

C25_Witness ==
    /\ sigQueue # <<>>
    /\ \E i \in 1..Len(log_buffer) : IsOutput(log_buffer[i])
    /\ \E ch \in Channels : pipes[1][ch].read < pipes[1][ch].written

\* the session is over: run() has returned or has been left by an exception,
\* and the reader threads, which are daemon threads, end with the interpreter
SessionOver == phase \in {"returned", "crashed"}

\* C27 as stated: a reader thread that has finished had read every line
\* written to its channel, and once the child of a launch is no longer running
\* and its channel is drained, the reader thread of that channel finishes
\* (a session that is over has no reader thread left).
C27_ReadersEndWithChild ==
    /\ [](\A r \in DOMAIN pipes, ch \in Channels :
            pipes[r][ch].done => pipes[r][ch].read = pipes[r][ch].written)
    /\ \A r \in 1..MaxRuns, ch \in Channels :
         (r \in DOMAIN pipes /\ ~Alive(r) /\ pipes[r][ch].read = pipes[r][ch].written)
           ~> \/ SessionOver
              \/ r \in DOMAIN pipes /\ pipes[r][ch].done

\* C27, amended: a reader thread that has finished had read every line
\* written to its channel, by then closed by the child and by every process
\* that inherited it; and once the child of a launch is no longer running and
\* no other process holds the channel open, the reader thread of that channel
\* finishes (a session that is over has no reader thread left).
C27_ReadersRunToEndOfStream ==
    /\ [](\A r \in DOMAIN pipes, ch \in Channels :
            pipes[r][ch].done =>
              /\ pipes[r][ch].read = pipes[r][ch].written
              /\ ~Alive(r) /\ ~pipes[r][ch].held)
    /\ \A r \in 1..MaxRuns, ch \in Channels :
         (r \in DOMAIN pipes /\ ~Alive(r) /\ ~pipes[r][ch].held)
           ~> \/ SessionOver
              \/ r \in DOMAIN pipes /\ pipes[r][ch].done

\* both readers of a child that wrote to both channels have finished, and
\* the handle has been cleared
C27_Witness ==
    /\ phase = "open"
    /\ 1 \in DOMAIN pipes
    /\ process = None
    /\ \A ch \in Channels : pipes[1][ch].done /\ pipes[1][ch].written >= 1

\* C28 as stated: after a successful start every line of the log buffer is
\* of the current run: its command echo, output of its process, or its exit
\* message.
C28_NoStaleLines ==
    (runs >= 1 /\ log_buffer # <<>> /\ log_buffer[1] = CommandEchoLine(runs)) =>
      \A i \in 1..Len(log_buffer) :
        \A a \in Range(log_buffer[i]) : a.run \in {0, runs}

\* C31: a stop request leaves the log buffer, the file selection, the rule
\* states, the free text and the command as they are, launches nothing and
\* assigns no result; the handle is kept or cleared, and when it is cleared
\* the button shows Run.
C31_StopChangesOnlyHandleAndButton ==
    [][(phase = "open" /\ process # None /\ RunCommand) =>
         /\ UNCHANGED << log_buffer, fileVars, ruleVars, feedback_text, command_entry,
                         runs, timerActive, endVars >>
         /\ process' \in {process, None}
         /\ process' = None => run_button' = "Run"]_vars

C31_Witness ==
    /\ phase = "open"
    /\ process = None /\ run_button = "Run"
    /\ killed # {}
    /\ Len(log_buffer) >= 2
    /\ feedback_text # <<>>
    /\ selected_files = {}

\* C32: a poll tick while no handle is held, or while the held process is
\* still running, changes nothing.
C32_IdlePollChangesNothing ==
    [][(CheckProcessStatus /\ (process = None \/ procState = "running"))
         => UNCHANGED vars]_vars

C32_Witness ==
    /\ phase = "open"
    /\ timerActive
    /\ process = None
    /\ killed # {}
    /\ sigQueue # <<>>

\* C33: the log buffer never holds the exit message of a launch twice; the
\* message of a launch is appended only in a step that finds its handle held
\* and clears it; and a handle that has been cleared is never held again,
\* since every launch gets a new one.
C33_ExitLineAtMostOnce ==
    /\ [](\A r \in 1..MaxRestarts :
            Cardinality({i \in 1..Len(log_buffer) : log_buffer[i] = ExitLine(r)}) <= 1)
    /\ [][\A r \in 1..MaxRestarts :
            log_buffer' = Append(log_buffer, ExitLine(r)) => (process = r /\ process' = None)]_vars
    /\ [][(process' # process /\ process' # None) =>
            (process = None /\ process' = runs + 1 /\ runs' = runs + 1)]_vars

C33_Witness ==
    /\ runs = 2
    /\ 1 \in killed
    /\ process = None
    /\ \E i \in 1..Len(log_buffer) : log_buffer[i] = ExitLine(2)

\* C34 as stated: no line read from a process stands in the log buffer after
\* the exit message of that process.
C34_OutputBeforeExitLine ==
    \A i, j \in 1..Len(log_buffer) :
      \A r \in 1..MaxRuns :
        (i < j /\ log_buffer[i] = ExitLine(r)) =>
          ~(IsOutput(log_buffer[j]) /\ log_buffer[j][1].run = r)

\* C35: while the window is open the run button shows Stop exactly when a
\* handle is held.
C35_ButtonShowsStopIffHandleHeld ==
    phase = "open" => (run_button = "Stop" <=> process # None)

C35_Witness ==
    /\ phase = "open"
    /\ killed # {}
    /\ Len(log_buffer) = 2
    /\ log_buffer[2] = ErrorLine(runs + 1)
    /\ run_button = "Run"

\* C36 as stated: while the window is open, selected_files is the set of paths
\* whose item in the file list is checked.
C36_SelectionMatchesCheckboxes ==
    phase = "open" => selected_files = {p \in DOMAIN checked : checked[p]}

\* C37 as stated: once launch_feedback_ui has returned or raised, the
\* temporary file is gone; a non-zero exit code of the UI process has raised;
\* and a session closed without submission has returned its default result.
C37_NoTempFileLeftAndExitSurfaces ==
    launch.outcome # "pending" =>
      /\ ~launch.tmp.exists
      /\ launch.exit = "nonzero" => launch.outcome = "raised"
      /\ (phase \in {"returned", "crashed"} /\ ~Submitted) =>
           /\ launch.outcome = "returned"
           /\ launch.value = << DefaultResult(log_buffer) >>

====
